---- MODULE Spec2Model ----
(***************************************************************************)
(* A model of src/main/sqlite.py: a linear script that opens four          *)
(* connections to one SQLite file (lines 30, 210, 240, 273) and runs DDL,  *)
(* inserts, selects, an update, a delete, a rollback, a try/except/finally *)
(* block and a `with db:` block against the table `users`.                 *)
(*                                                                         *)
(* The database file holds the committed table.  Every connection has its  *)
(* own transaction state: Python's sqlite3 module (default isolation       *)
(* level) opens a transaction implicitly before INSERT/UPDATE/DELETE, runs *)
(* DDL in autocommit when no transaction is open, writes the transaction   *)
(* to the file on commit() and discards it on rollback(), on close() and   *)
(* when the process ends.  Any statement that touches the file may raise   *)
(* (sqlite3.OperationalError); an exception outside a try block ends the   *)
(* script.                                                                 *)
(***************************************************************************)
EXTENDS Integers, Sequences, FiniteSets, TLC

VARIABLES
    pc,        \* the statement the script executes next (its line), or end/raised/exited
    file,      \* the committed content of ./data/test.db
    conn,      \* the four connection objects, in the order the script opens them
    db,        \* the connection the global name `db` is bound to (0: not bound yet)
    seed,      \* the seed of the `random` module's generator
    user1,     \* name1, phone1, email1, password1 (lines 234-238)
    exc,       \* the last exception raised: its kind, the line and the connection
    lastRead   \* the rows the last SELECT returned, in rowid order

vars == <<pc, file, conn, db, seed, user1, exc, lastRead>>

----------------------------------------------------------------------------
(* Bounds of the model *)

\* number of generator seeds explored
MaxSeed == 2

\* largest number of rows a database file left by an earlier run holds
MaxRows == 2

----------------------------------------------------------------------------
(* Constants of the script *)

\* range(10), line 113
BatchSize == 10

\* user_id = 5, line 162
user_id == 5

\* DELETE ... WHERE id = ?, (8,), line 179
DeletedId == 8

\* random.randint(10000000, 1000000000), line 109
PhoneLo == 10000000
PhoneHi == 1000000000

\* random.randint(10000, 90000), line 111
PassLo == 10000
PassHi == 90000

\* the phone committed at line 175-176 and the one rolled back at 192-193
CommittedPhone == "01710567890"
RolledBackPhone == "01712567890"

Conns == 1..4

----------------------------------------------------------------------------
(* str(): decimal formatting of a non-negative integer *)

Digit(d) ==
    CASE d = 0 -> "0" [] d = 1 -> "1" [] d = 2 -> "2" [] d = 3 -> "3"
      [] d = 4 -> "4" [] d = 5 -> "5" [] d = 6 -> "6" [] d = 7 -> "7"
      [] d = 8 -> "8" [] d = 9 -> "9"

RECURSIVE Str(_)
Str(n) == IF n < 10 THEN Digit(n) ELSE Str(n \div 10) \o Digit(n % 10)

(* random: a deterministic generator of its seed.  The script draws twice  *)
(* per row, the phone (line 109) and then the password (line 111).  The    *)
(* stream is a linear congruential stand-in for the Mersenne Twister: the  *)
(* drawn values are data no statement of the script branches on.           *)
RandStep(s) == (s * 75 + 74) % 65537

RECURSIVE RandState(_, _)
RandState(s, n) == IF n = 0 THEN RandStep(s) ELSE RandStep(RandState(s, n - 1))

\* the n-th call of random.randint(lo, hi) after seeding with s
RandInt(s, n, lo, hi) == lo + (RandState(s, n) % (hi - lo + 1))

----------------------------------------------------------------------------
(* The table users(id INTEGER PRIMARY KEY, name, phone, email unique,      *)
(* password): whether it exists, and its rows.                             *)

USER(name, phone, email, password) ==
    [name |-> name, phone |-> phone, email |-> email, password |-> password]

NoTable == [present |-> FALSE, rows |-> {}]

EmptyTable == [present |-> TRUE, rows |-> {}]

\* DROP TABLE IF EXISTS users
DropTableIfExists(tbl) == NoTable

\* CREATE TABLE IF NOT EXISTS users(...)
\* (variant: CREATE TABLE that replaces an existing table)
CreateAlways(tbl) == EmptyTable

CreateTableIfNotExists(tbl) == IF tbl.present THEN tbl ELSE EmptyTable

Ids(tbl) == {r.id : r \in tbl.rows}

MaxOf(S) == CHOOSE m \in S : \A x \in S : x <= m

\* INTEGER PRIMARY KEY without AUTOINCREMENT: one more than the largest rowid
NextRowId(tbl) == IF tbl.rows = {} THEN 1 ELSE MaxOf(Ids(tbl)) + 1

\* the unique constraint on email
EmailTaken(tbl, email) == \E r \in tbl.rows : r.email = email

\* INSERT INTO users(name, phone, email, password) VALUES (?,?,?,?)
\* err: "none", "IntegrityError" (unique constraint) or "OperationalError" (no such table)
\* (variant: the column email declared without unique)
InsertRowNoUnique(tbl, u) ==
    IF ~tbl.present THEN [tbl |-> tbl, err |-> "OperationalError"]
    ELSE [tbl |-> [tbl EXCEPT !.rows = @ \cup
                     {[id |-> NextRowId(tbl), name |-> u.name, phone |-> u.phone,
                       email |-> u.email, password |-> u.password]}],
          err |-> "none"]

InsertRow(tbl, u) ==
    IF ~tbl.present THEN [tbl |-> tbl, err |-> "OperationalError"]
    ELSE IF EmailTaken(tbl, u.email) THEN [tbl |-> tbl, err |-> "IntegrityError"]
    ELSE [tbl |-> [tbl EXCEPT !.rows = @ \cup
                     {[id |-> NextRowId(tbl), name |-> u.name, phone |-> u.phone,
                       email |-> u.email, password |-> u.password]}],
          err |-> "none"]

\* executemany: the rows of us in order, stopping at the first row that
\* fails; limit is the number of rows after which the engine fails for a
\* reason of its own (Len(us): never)
\* (variant: the rows taken from the end of the list)
RECURSIVE InsertManyLastFirst(_, _, _)
InsertManyLastFirst(tbl, us, limit) ==
    IF us = <<>> THEN [tbl |-> tbl, err |-> "none"]
    ELSE IF limit = 0 THEN [tbl |-> tbl, err |-> "OperationalError"]
    ELSE LET r == InsertRow(tbl, us[Len(us)])
         IN  IF r.err # "none" THEN r
             ELSE InsertManyLastFirst(r.tbl, SubSeq(us, 1, Len(us) - 1), limit - 1)

RECURSIVE InsertMany(_, _, _)
InsertMany(tbl, us, limit) ==
    IF us = <<>> THEN [tbl |-> tbl, err |-> "none"]
    ELSE IF limit = 0 THEN [tbl |-> tbl, err |-> "OperationalError"]
    ELSE LET r == InsertRow(tbl, Head(us))
         IN  IF r.err # "none" THEN r
             ELSE InsertMany(r.tbl, Tail(us), limit - 1)

\* UPDATE users SET phone = ? WHERE id = ?
UpdatePhone(tbl, phone, id) ==
    [tbl EXCEPT !.rows = {IF r.id = id THEN [r EXCEPT !.phone = phone] ELSE r : r \in @}]

\* DELETE FROM users WHERE id = ?
DeleteRow(tbl, id) == [tbl EXCEPT !.rows = {r \in @ : r.id # id}]

\* the rows of a set in rowid order
RECURSIVE SortById(_)
SortById(rows) ==
    IF rows = {} THEN <<>>
    ELSE LET m == CHOOSE r \in rows : \A q \in rows : r.id <= q.id
         IN  <<m>> \o SortById(rows \ {m})

\* SELECT name, phone, email FROM users (line 142)
SelectNamePhoneEmail(tbl) ==
    LET s == SortById(tbl.rows)
    IN  [i \in 1..Len(s) |-> <<s[i].name, s[i].phone, s[i].email>>]

\* SELECT name, email, phone FROM users (lines 155, 276)
SelectNameEmailPhone(tbl) ==
    LET s == SortById(tbl.rows)
    IN  [i \in 1..Len(s) |-> <<s[i].name, s[i].email, s[i].phone>>]

\* SELECT name, email, phone FROM users WHERE id=? (line 163)
SelectById(tbl, id) == SelectNameEmailPhone([tbl EXCEPT !.rows = {r \in @ : r.id = id}])

----------------------------------------------------------------------------
(* The rows the script inserts *)

\* line 80
Halim == USER("Halim", "01234567890", "halim@email.com", "ha1234")

\* line 91
Alim == USER("Alim", "01234567890", "alim@email.com", "al1234")

\* lines 234-238
Mobarak == USER("Mobarak", "3366858", "imshakil@github.com", "12345")

\* lines 106-114: the list `users`, row i of range(10) at position i + 1
Users(s) ==
    [i \in 1..BatchSize |->
        USER("Name " \o Str(i - 1),
             Str(RandInt(s, 2 * (i - 1), PhoneLo, PhoneHi)),
             "name" \o Str(i - 1) \o "@email.com",
             Str(RandInt(s, 2 * (i - 1) + 1, PassLo, PassHi)))]

----------------------------------------------------------------------------
(* Connections *)

Unopened == [status |-> "unopened", inTxn |-> FALSE, work |-> NoTable]

NoExc == [kind |-> "none", line |-> "none", conn |-> 0]

Raised(kind, line, c) == [kind |-> kind, line |-> line, conn |-> c]

\* what a statement on connection c sees: its own transaction, else the file
View(c) == IF conn[c].inTxn THEN conn[c].work ELSE file

\* SQLite's file lock: another open connection holds a write transaction
Locked(c) == \E d \in Conns \ {c} : conn[d].status = "open" /\ conn[d].inTxn

\* sqlite3.connect("./data/test.db")
Connect(c) == [conn EXCEPT ![c] = [status |-> "open", inTxn |-> FALSE, work |-> NoTable]]

\* the effect of a successful INSERT/UPDATE/DELETE: the implicit BEGIN and the change
Write(c, tbl) == [conn EXCEPT ![c] = [@ EXCEPT !.inTxn = TRUE, !.work = tbl]]

\* db.rollback()
\* (variant: a rollback that keeps the transaction)
RollbackKeeps(c) == conn

Rollback(c) == [conn EXCEPT ![c] = [@ EXCEPT !.inTxn = FALSE, !.work = NoTable]]

\* db.commit(): the transaction, if any, becomes the file's content
Commit(c) ==
    [file |-> View(c),
     conn |-> [conn EXCEPT ![c] = [@ EXCEPT !.inTxn = FALSE, !.work = NoTable]]]

\* db.close(): an open transaction is discarded; closing again changes nothing
Close(c) == [conn EXCEPT ![c] = [status |-> "closed", inTxn |-> FALSE, work |-> NoTable]]

----------------------------------------------------------------------------
(* The statements of the script in order, and how far a run has come *)

Order ==
    <<"L30", "L50", "L56", "L66", "L81", "L85", "L92", "L101", "L116", "L119",
      "L142", "L155", "L163", "L175", "L176", "L179", "L180", "L192", "L193",
      "L210", "L216", "L220", "L224", "L227", "L240", "L242", "L245", "L249",
      "L273", "L276", "L281", "end">>

Pos(p) == CHOOSE i \in 1..Len(Order) : Order[i] = p

\* the position of the last statement the run reached
Progress ==
    IF pc \in {"raised", "exited"}
    THEN IF exc.kind = "OperationalError" THEN Pos(exc.line) ELSE Pos("end")
    ELSE Pos(pc)

----------------------------------------------------------------------------
(* Statements outside any try block: an exception ends the script *)

\* the exception propagates to the top level
Propagate(kind, line, c) == pc' = "raised" /\ exc' = Raised(kind, line, c)

\* line 30: db = sqlite3.connect(...); line 33: cur = db.cursor()
L30 ==
    /\ pc = "L30"
    /\ \E ok \in BOOLEAN :
         IF ok
         THEN conn' = Connect(1) /\ db' = 1 /\ pc' = "L50" /\ exc' = exc
         ELSE conn' = conn /\ db' = db /\ Propagate("OperationalError", "L30", 1)
    /\ UNCHANGED <<file, seed, user1, lastRead>>

\* a DDL statement on connection c: inside c's transaction when one is open,
\* else applied to the file at once
Ddl(line, next, c, tbl) ==
    /\ pc = line
    /\ \E ok \in BOOLEAN :
         IF ok /\ ~(tbl # View(c) /\ Locked(c))
         THEN /\ IF conn[c].inTxn
                 THEN conn' = Write(c, tbl) /\ file' = file
                 ELSE conn' = conn /\ file' = tbl
              /\ pc' = next /\ exc' = exc
         ELSE /\ conn' = conn /\ file' = file
              /\ Propagate("OperationalError", line, c)
    /\ UNCHANGED <<db, seed, user1, lastRead>>

\* line 50: cur.execute("DROP TABLE IF EXISTS users")
L50 == Ddl("L50", "L56", 1, DropTableIfExists(View(1)))

\* line 56: cur.execute("CREATE TABLE IF NOT EXISTS users(...)")
L56 == Ddl("L56", "L66", 1, CreateTableIfNotExists(View(1)))

\* db.commit() on connection c (lines 66, 85, 101, 119, 176, 180)
CommitStmt(line, next, c) ==
    /\ pc = line
    /\ \E ok \in BOOLEAN :
         IF ok /\ ~Locked(c)
         THEN /\ file' = Commit(c).file /\ conn' = Commit(c).conn
              /\ pc' = next /\ exc' = exc
         ELSE /\ file' = file /\ conn' = conn
              /\ Propagate("OperationalError", line, c)
    /\ UNCHANGED <<db, seed, user1, lastRead>>

L66 == CommitStmt("L66", "L81", db)

\* an INSERT/UPDATE/DELETE on connection c with result r = [tbl, err]: a
\* statement that fails changes no row; the implicit BEGIN before it may
\* have run (began), and then leaves a transaction without changes open
Dml(line, next, c, r) ==
    /\ pc = line
    /\ \E ok, began \in BOOLEAN :
         IF ok /\ ~Locked(c) /\ r.err = "none"
         THEN conn' = Write(c, r.tbl) /\ pc' = next /\ exc' = exc
         ELSE /\ conn' = (IF began THEN Write(c, View(c)) ELSE conn)
              /\ Propagate(IF ok /\ ~Locked(c) THEN r.err ELSE "OperationalError", line, c)
    /\ UNCHANGED <<file, db, seed, user1, lastRead>>

\* lines 80-84: insert Halim with "?" placeholders
L81 == Dml("L81", "L85", 1, InsertRow(View(1), Halim))

L85 == CommitStmt("L85", "L92", db)

\* lines 91-100: insert Alim with ":name" placeholders
L92 == Dml("L92", "L101", 1, InsertRow(View(1), Alim))

L101 == CommitStmt("L101", "L116", db)

\* lines 106-118: cur.executemany(INSERT ..., users).  All rows run in the one
\* implicit transaction; when row k fails, rows 0..k-1 stay in the open
\* transaction and the exception propagates.
\* (variant: isolation_level=None, every row written to the file at once)
L116_autocommit ==
    /\ pc = "L116"
    /\ \E k \in 0..BatchSize, began \in BOOLEAN :
         LET r == InsertMany(View(1), Users(seed), k)
         IN  IF ~Locked(1) /\ r.err = "none"
             THEN file' = r.tbl /\ conn' = conn /\ pc' = "L119" /\ exc' = exc
             ELSE /\ file' = (IF Locked(1) THEN file ELSE r.tbl)
                  /\ conn' = conn
                  /\ Propagate(IF Locked(1) THEN "OperationalError" ELSE r.err, "L116", 1)
    /\ UNCHANGED <<db, seed, user1, lastRead>>

L116 ==
    /\ pc = "L116"
    /\ \E k \in 0..BatchSize, began \in BOOLEAN :
         LET r == InsertMany(View(1), Users(seed), k)
         IN  IF ~Locked(1) /\ r.err = "none"
             THEN conn' = Write(1, r.tbl) /\ pc' = "L119" /\ exc' = exc
             ELSE /\ conn' = (IF Locked(1) THEN (IF began THEN Write(1, View(1)) ELSE conn)
                              ELSE IF r.tbl = View(1) /\ ~began THEN conn
                              ELSE Write(1, r.tbl))
                  /\ Propagate(IF Locked(1) THEN "OperationalError" ELSE r.err, "L116", 1)
    /\ UNCHANGED <<file, db, seed, user1, lastRead>>

L119 == CommitStmt("L119", "L142", db)

\* a SELECT on connection c returning rows
Select(line, next, c, rows) ==
    /\ pc = line
    /\ \E ok \in BOOLEAN :
         IF ok /\ View(c).present
         THEN lastRead' = rows /\ pc' = next /\ exc' = exc
         ELSE lastRead' = lastRead /\ Propagate("OperationalError", line, c)
    /\ UNCHANGED <<file, conn, db, seed, user1>>

\* lines 142-150: SELECT name, phone, email; fetchone, fetchmany(5) and
\* fetchall return the rows of the result in order
L142 == Select("L142", "L155", 1, SelectNamePhoneEmail(View(1)))

\* lines 155-157: the cursor iterated
L155 == Select("L155", "L163", 1, SelectNameEmailPhone(View(1)))

\* lines 162-164: WHERE id=? with user_id
L163 == Select("L163", "L175", 1, SelectById(View(1), user_id))

\* line 175: UPDATE users SET phone = ? WHERE id = ?
L175 ==
    Dml("L175", "L176", 1,
        [tbl |-> UpdatePhone(View(1), CommittedPhone, user_id),
         err |-> IF View(1).present THEN "none" ELSE "OperationalError"])

L176 == CommitStmt("L176", "L179", db)

\* line 179: DELETE FROM users WHERE id = ?
L179 ==
    Dml("L179", "L180", 1,
        [tbl |-> DeleteRow(View(1), DeletedId),
         err |-> IF View(1).present THEN "none" ELSE "OperationalError"])

L180 == CommitStmt("L180", "L192", db)

\* line 192: the update that is not committed
L192 ==
    Dml("L192", "L193", 1,
        [tbl |-> UpdatePhone(View(1), RolledBackPhone, user_id),
         err |-> IF View(1).present THEN "none" ELSE "OperationalError"])

\* line 193: db.rollback()
\* (variant: line 193 left out)
L193_skip ==
    /\ pc = "L193"
    /\ pc' = "L210"
    /\ UNCHANGED <<file, conn, db, seed, user1, exc, lastRead>>

L193 ==
    /\ pc = "L193"
    /\ conn' = Rollback(db)
    /\ pc' = "L210"
    /\ UNCHANGED <<file, db, seed, user1, exc, lastRead>>

----------------------------------------------------------------------------
(* Lines 208-227: try / except Exception / finally *)

\* line 210: db is rebound only when connect returns; line 213: db.cursor()
L210 ==
    /\ pc = "L210"
    /\ \E ok \in BOOLEAN :
         IF ok
         THEN conn' = Connect(2) /\ db' = 2 /\ pc' = "L216" /\ exc' = exc
         ELSE /\ conn' = conn /\ db' = db
              /\ pc' = "L224" /\ exc' = Raised("OperationalError", "L210", 2)
    /\ UNCHANGED <<file, seed, user1, lastRead>>

\* line 216: cursor.execute("CREATE TABLE IF NOT EXISTS users(...)")
L216 ==
    /\ pc = "L216"
    /\ \E ok \in BOOLEAN :
         LET tbl == CreateTableIfNotExists(View(db))
         IN  IF ok /\ ~(tbl # View(db) /\ Locked(db))
             THEN /\ IF conn[db].inTxn
                     THEN conn' = Write(db, tbl) /\ file' = file
                     ELSE conn' = conn /\ file' = tbl
                  /\ pc' = "L220" /\ exc' = exc
             ELSE /\ conn' = conn /\ file' = file
                  /\ pc' = "L224" /\ exc' = Raised("OperationalError", "L216", db)
    /\ UNCHANGED <<db, seed, user1, lastRead>>

\* line 220: db.commit()
L220 ==
    /\ pc = "L220"
    /\ \E ok \in BOOLEAN :
         IF ok /\ ~Locked(db)
         THEN /\ file' = Commit(db).file /\ conn' = Commit(db).conn
              /\ pc' = "L227" /\ exc' = exc
         ELSE /\ file' = file /\ conn' = conn
              /\ pc' = "L224" /\ exc' = Raised("OperationalError", "L220", db)
    /\ UNCHANGED <<db, seed, user1, lastRead>>

\* lines 222-225: except Exception as e: db.rollback(); raise e
L224 ==
    /\ pc = "L224"
    /\ conn' = Rollback(db)
    /\ pc' = "L227"
    /\ UNCHANGED <<file, db, seed, user1, exc, lastRead>>

\* lines 226-227: finally: db.close(), then the exception, if any, goes on
L227 ==
    /\ pc = "L227"
    /\ conn' = Close(db)
    /\ pc' = (IF exc.kind = "none" THEN "L240" ELSE "raised")
    /\ UNCHANGED <<file, db, seed, user1, exc, lastRead>>

----------------------------------------------------------------------------
(* Lines 239-249: try / with db / except sqlite3.IntegrityError / finally *)

\* line 240
L240 ==
    /\ pc = "L240"
    /\ \E ok \in BOOLEAN :
         IF ok
         THEN conn' = Connect(3) /\ db' = 3 /\ pc' = "L242" /\ exc' = exc
         ELSE /\ conn' = conn /\ db' = db
              /\ pc' = "L249" /\ exc' = Raised("OperationalError", "L240", 3)
    /\ UNCHANGED <<file, seed, user1, lastRead>>

\* lines 241-245: the body of `with db:`.  When the INSERT raises, the
\* context manager rolls back; sqlite3.IntegrityError is then caught at line
\* 246 and "Data already exists" printed, any other exception goes on
\* through the finally clause.
L242 ==
    /\ pc = "L242"
    /\ \E ok \in BOOLEAN :
         LET r == InsertRow(View(db), user1)
         IN  IF ok /\ ~Locked(db) /\ r.err = "none"
             THEN conn' = Write(db, r.tbl) /\ pc' = "L245" /\ exc' = exc
             ELSE /\ conn' = Rollback(db)
                  /\ pc' = "L249"
                  /\ exc' = Raised(IF ok /\ ~Locked(db) THEN r.err ELSE "OperationalError",
                                   "L242", db)
    /\ UNCHANGED <<file, db, seed, user1, lastRead>>

\* leaving the with block without an exception: the context manager
\* commits.  When the commit itself fails the exception goes on; newer
\* versions of the sqlite3 module roll back first (rb), older ones leave the
\* transaction to the close of line 249.
\* (variant: a context manager that rolls back on leaving the block)
L245_rollback ==
    /\ pc = "L245"
    /\ file' = file /\ conn' = Rollback(db)
    /\ pc' = "L249"
    /\ UNCHANGED <<db, seed, user1, exc, lastRead>>

L245 ==
    /\ pc = "L245"
    /\ \E ok, rb \in BOOLEAN :
         IF ok /\ ~Locked(db)
         THEN /\ file' = Commit(db).file /\ conn' = Commit(db).conn
              /\ pc' = "L249" /\ exc' = exc
         ELSE /\ file' = file /\ conn' = (IF rb THEN Rollback(db) ELSE conn)
              /\ pc' = "L249" /\ exc' = Raised("OperationalError", "L245", db)
    /\ UNCHANGED <<db, seed, user1, lastRead>>

\* lines 248-249: finally: db.close()
\* (variant: no db.close() in the finally clause)
L249_noclose ==
    /\ pc = "L249"
    /\ pc' = (IF exc.kind = "OperationalError" THEN "raised" ELSE "L273")
    /\ UNCHANGED <<file, conn, db, seed, user1, exc, lastRead>>

L249 ==
    /\ pc = "L249"
    /\ conn' = Close(db)
    /\ pc' = (IF exc.kind = "OperationalError" THEN "raised" ELSE "L273")
    /\ UNCHANGED <<file, db, seed, user1, exc, lastRead>>

----------------------------------------------------------------------------
(* Lines 273-281: reopen, read, close *)

\* lines 273-275
L273 ==
    /\ pc = "L273"
    /\ \E ok \in BOOLEAN :
         IF ok
         THEN conn' = Connect(4) /\ db' = 4 /\ pc' = "L276" /\ exc' = exc
         ELSE conn' = conn /\ db' = db /\ Propagate("OperationalError", "L273", 4)
    /\ UNCHANGED <<file, seed, user1, lastRead>>

\* lines 276-278
L276 == Select("L276", "L281", db, SelectNameEmailPhone(View(db)))

\* line 281
L281 ==
    /\ pc = "L281"
    /\ conn' = Close(db)
    /\ pc' = "end"
    /\ UNCHANGED <<file, db, seed, user1, exc, lastRead>>

\* the process ends, after the last line or with an uncaught exception: a
\* connection never closed is torn down and its transaction discarded
Exit ==
    /\ pc \in {"end", "raised"}
    /\ conn' = [c \in Conns |->
                  IF conn[c].status = "open"
                  THEN [status |-> "leaked", inTxn |-> FALSE, work |-> NoTable]
                  ELSE conn[c]]
    /\ pc' = "exited"
    /\ UNCHANGED <<file, db, seed, user1, exc, lastRead>>

----------------------------------------------------------------------------
(* The script *)

\* the tables a sequence of at most n inserts leaves
RECURSIVE TablesUpTo(_, _)
TablesUpTo(pool, n) ==
    IF n = 0 THEN {EmptyTable}
    ELSE LET T == TablesUpTo(pool, n - 1)
         IN  T \cup {InsertRow(t, u).tbl : t \in T, u \in pool}

\* what an earlier run of the script may have left in ./data/test.db
LeftoverFiles == {NoTable} \cup TablesUpTo({Halim, Alim, Mobarak}, MaxRows)

Init ==
    /\ pc = "L30"
    /\ file \in LeftoverFiles
    /\ conn = [c \in Conns |-> Unopened]
    /\ db = 0
    /\ seed \in 0..(MaxSeed - 1)
    /\ user1 = Mobarak
    /\ exc = NoExc
    /\ lastRead = <<>>

Next ==
    \/ L30 \/ L50 \/ L56 \/ L66 \/ L81 \/ L85 \/ L92 \/ L101 \/ L116 \/ L119
    \/ L142 \/ L155 \/ L163 \/ L175 \/ L176 \/ L179 \/ L180 \/ L192 \/ L193
    \/ L210 \/ L216 \/ L220 \/ L224 \/ L227
    \/ L240 \/ L242 \/ L245 \/ L249
    \/ L273 \/ L276 \/ L281 \/ Exit

Spec == Init /\ [][Next]_vars

(* The script from its first line, and also its block of lines 239-281     *)
(* started on every table of at most MaxRows rows with every candidate row *)
(* in name1..password1: the connections are as line 227 leaves them (the   *)
(* first open and idle, the second closed).                                *)
InitInsert ==
    /\ pc = "L240"
    /\ file \in TablesUpTo({Halim, Alim, Mobarak}, MaxRows)
    /\ conn = [c \in Conns |->
                 IF c = 1 THEN [status |-> "open", inTxn |-> FALSE, work |-> NoTable]
                 ELSE IF c = 2 THEN [status |-> "closed", inTxn |-> FALSE, work |-> NoTable]
                 ELSE Unopened]
    /\ db = 2
    /\ seed = 0
    /\ user1 \in {Halim, Alim, Mobarak}
    /\ exc = NoExc
    /\ lastRead = <<>>

InitAnyTable == Init \/ InitInsert

SpecAnyTable == InitAnyTable /\ [][Next]_vars

----------------------------------------------------------------------------
(* Properties *)

\* the run has read the table back at line 276
ReadBack == pc \in {"L281", "end"} \/ (pc = "exited" /\ exc.kind = "none")

\* the rows of a table that carry an email of the batch of lines 106-114
BatchIn(tbl) == {r \in tbl.rows : \E i \in 1..BatchSize : r.email = Users(seed)[i].email}

\* the rows every statement of the script up to line 245 has committed
ExpectedFinalRows ==
    {[id |-> 1, name |-> Halim.name, phone |-> Halim.phone,
      email |-> Halim.email, password |-> Halim.password],
     [id |-> 2, name |-> Alim.name, phone |-> Alim.phone,
      email |-> Alim.email, password |-> Alim.password],
     [id |-> BatchSize + 3, name |-> Mobarak.name, phone |-> Mobarak.phone,
      email |-> Mobarak.email, password |-> Mobarak.password]}
    \cup
    {[id |-> i + 2, name |-> Users(seed)[i].name,
      phone |-> IF i + 2 = user_id THEN CommittedPhone ELSE Users(seed)[i].phone,
      email |-> Users(seed)[i].email, password |-> Users(seed)[i].password]
        : i \in {j \in 1..BatchSize : j + 2 # DeletedId}}

\* C1: once the update of line 192 is rolled back at line 193, every open
\* connection sees the phone committed at line 176 for user 5, the first
\* connection sees exactly the committed file, and the read of line 276
\* returns the committed phone for that user.
C1_RollbackNotVisible ==
    Progress > Pos("L193") =>
        /\ \A c \in Conns : conn[c].status = "open" =>
              /\ \E r \in View(c).rows : r.id = user_id
              /\ \A r \in View(c).rows : r.id = user_id => r.phone = CommittedPhone
        /\ conn[1].status = "open" => View(1) = file
        /\ \A r \in file.rows : r.phone # RolledBackPhone
        /\ ReadBack =>
              /\ \E i \in DOMAIN lastRead : lastRead[i][2] = "name2@email.com"
              /\ \A i \in DOMAIN lastRead :
                    lastRead[i][2] = "name2@email.com" => lastRead[i][3] = CommittedPhone

C1_Witness ==
    /\ pc = "L281"
    /\ conn[1].status = "open"
    /\ \E i \in DOMAIN lastRead :
          lastRead[i][2] = "name2@email.com" /\ lastRead[i][3] = CommittedPhone

\* C2: an INSERT of a row whose email is already in the table never
\* succeeds: it raises (sqlite3.IntegrityError unless the engine fails
\* first), the file and what the connection sees stay as they were, and no
\* transaction stays open.
C2_DuplicateEmailRejected ==
    [][(pc = "L242" /\ EmailTaken(View(db), user1.email)) =>
          /\ pc' = "L249"
          /\ exc'.kind \in {"IntegrityError", "OperationalError"}
          /\ exc'.line = "L242"
          /\ file' = file
          /\ View(db)' = View(db)
          /\ Cardinality(View(db)'.rows) = Cardinality(View(db).rows)
          /\ ~conn'[db].inTxn]_vars

C2_Witness ==
    /\ pc = "L249"
    /\ exc.kind = "IntegrityError"
    /\ EmailTaken(file, user1.email)
    /\ file.rows # {}

\* C3: the connection opened at line 273 reads exactly the rows the commits
\* of lines 85, 101, 119, 176, 180 and of the with block left in the file:
\* ids 1..12 without 8, user 5 with the committed phone, and the row of
\* imshakil@github.com with id 13.
C3_CommittedPersists ==
    ReadBack =>
        /\ file = [present |-> TRUE, rows |-> ExpectedFinalRows]
        /\ lastRead = SelectNameEmailPhone([present |-> TRUE, rows |-> ExpectedFinalRows])
        /\ Len(lastRead) = BatchSize + 2

C3_Witness ==
    /\ pc = "end"
    /\ conn[4].status = "closed"
    /\ \E i \in DOMAIN lastRead : lastRead[i][2] = Mobarak.email

\* the run has left the block of lines 239-249
AfterBlock ==
    \/ pc \in {"L273", "L276", "L281", "end"}
    \/ pc \in {"raised", "exited"} /\ Progress >= Pos("L240")

\* C4: after the block of lines 239-249 the connection of line 240 is closed
\* (or was never opened) and no transaction is pending; leaving the with
\* block without an exception commits exactly the inserted row; a statement
\* of the block that raises changes nothing in the file, an INSERT that
\* raises is rolled back, and the close of line 249 leaves no transaction.
C4_ScopedTransaction ==
    /\ [](AfterBlock =>
            /\ conn[3].status \in {"unopened", "closed"}
            /\ \A c \in Conns : ~conn[c].inTxn)
    /\ [][/\ (pc = "L245" /\ exc'.kind = "none") =>
                /\ ~conn'[db].inTxn
                /\ \E r \in file'.rows :
                      /\ r \notin file.rows
                      /\ r.email = user1.email /\ r.name = user1.name
                      /\ file'.rows \ {r} = file.rows
          /\ (pc \in {"L240", "L242", "L245"} /\ exc'.kind # "none") =>
                /\ file' = file
                /\ pc' = "L249"
          /\ (pc = "L242" /\ exc'.kind # "none") => ~conn'[db].inTxn
          /\ pc = "L249" =>
                /\ file' = file
                /\ conn'[db].status = "closed"
                /\ \A c \in Conns : ~conn'[c].inTxn]_vars

C4_Witness ==
    /\ pc = "L273"
    /\ conn[3].status = "closed"
    /\ exc.kind = "IntegrityError"

\* C5: every connection the script opens is closed before the script ends and
\* before `db` is rebound: an open connection is the one `db` names, and at
\* the end of the run, normal or not, no connection is left unclosed.
C5_EveryConnectionClosed ==
    /\ \A c \in Conns : conn[c].status = "open" => c = db
    /\ pc \in {"end", "raised", "exited"} =>
          \A c \in Conns : conn[c].status \in {"unopened", "closed"}

\* C6: when an unexpected failure propagates, the connection it was raised on
\* holds no pending change (its transaction has been rolled back), and the
\* handler of line 224 acts on the connection that failed.
C6_RollbackBeforePropagation ==
    /\ (pc = "raised" /\ exc.kind = "OperationalError") =>
          ~(conn[exc.conn].inTxn /\ conn[exc.conn].work # file)
    /\ pc = "L224" => db = exc.conn

\* C7: after the commit of line 119 the table holds 12 rows with ids 1..12:
\* the two rows present before keep ids 1 and 2, and row i of the batch has
\* id i + 3, so the new ids ascend in batch order above every earlier id.
C7_BatchInsertIds ==
    pc = "L142" =>
        /\ Cardinality(file.rows) = BatchSize + 2
        /\ Ids(file) = 1..(BatchSize + 2)
        /\ Cardinality(BatchIn(file)) = BatchSize
        /\ \A r \in file.rows : r.id <= 2 <=> r.email \in {Halim.email, Alim.email}
        /\ \A i \in 1..BatchSize : \E r \in file.rows :
              /\ r.id = i + 2
              /\ r.name = Users(seed)[i].name /\ r.phone = Users(seed)[i].phone
              /\ r.email = Users(seed)[i].email /\ r.password = Users(seed)[i].password
        /\ \A r, q \in BatchIn(file) :
              (\E i, j \in 1..BatchSize :
                  i < j /\ r.email = Users(seed)[i].email /\ q.email = Users(seed)[j].email)
              => r.id < q.id

C7_Witness ==
    /\ pc = "L142"
    /\ Cardinality(BatchIn(file)) = BatchSize
    /\ ~conn[1].inTxn

\* C8: from the creation of the table to the commit of the delete, the file
\* holds either no row of the batch or all of them; up to and including a
\* failed executemany it holds none, whatever part of the batch the open
\* transaction had applied.
C8_BatchAllOrNothing ==
    /\ (Progress > Pos("L50") /\ Progress <= Pos("L180")) =>
          Cardinality(BatchIn(file)) \in {0, BatchSize}
    /\ (Progress > Pos("L50") /\ Progress <= Pos("L116")) => BatchIn(file) = {}

C8_Witness ==
    /\ pc = "raised"
    /\ exc.line = "L116"
    /\ conn[1].inTxn
    /\ Cardinality(BatchIn(conn[1].work)) \in 1..(BatchSize - 1)
    /\ BatchIn(file) = {}

\* C9: CREATE TABLE IF NOT EXISTS at line 216 finds the table and changes
\* nothing, nor does the commit of line 220; at line 56, where the table is
\* absent, it creates the empty table.
C9_EnsureSchemaIdempotent ==
    [][/\ pc = "L216" => (file.present /\ file' = file /\ ~conn'[db].inTxn)
       /\ pc = "L220" => file' = file
       /\ (pc = "L56" /\ pc' = "L66") =>
             (~file.present /\ file' = EmptyTable)]_vars

C9_Witness ==
    /\ pc = "L227"
    /\ exc.kind = "none"
    /\ Cardinality(file.rows) = BatchSize + 1

\* the statements that write to the file or open a write transaction
WriteLines ==
    {"L50", "L56", "L66", "L81", "L85", "L92", "L101", "L116", "L119", "L175",
     "L176", "L179", "L180", "L192", "L216", "L220", "L242", "L245"}

\* C10: when the script is about to write through the connection `db`
\* names, no other open connection holds a transaction; after line 193 the
\* first connection holds none.
C10_NoPendingOnOtherConnection ==
    /\ pc \in WriteLines =>
          \A d \in Conns \ {db} : ~(conn[d].status = "open" /\ conn[d].inTxn)
    /\ (Progress > Pos("L193") /\ conn[1].status = "open") => ~conn[1].inTxn

C10_Witness ==
    /\ pc = "L245"
    /\ conn[1].status = "open"
    /\ conn[3].status = "open"
    /\ conn[3].inTxn

====
